---- MODULE Spec2Model ----
(***************************************************************************)
(* chaparrOS: the user-process system-call dispatcher (userprog/syscall.c) *)
(* as a state machine.  Each user process is a thread that is either in    *)
(* user mode, inside a handler at its lock_acquire(&archivos), inside the  *)
(* section guarded by archivos, or dead.  The kernel is preemptible, so    *)
(* the steps of different processes interleave at those points.            *)
(***************************************************************************)
EXTENDS Integers, Sequences, FiniteSets, TLC

(* ------------------------------------------------------------------ *)
(* Bounds of the model                                                 *)
(* ------------------------------------------------------------------ *)
MaxSize  == 2     \* largest `size` argument of READ / WRITE
MaxId    == 5     \* OPEN is not issued once the table's last id reached this

Procs == {1, 2}   \* the user processes issuing system calls

(* ------------------------------------------------------------------ *)
(* Program constants                                                   *)
(* ------------------------------------------------------------------ *)
SYS_HALT     == 0
SYS_EXIT     == 1
SYS_EXEC     == 2
SYS_WAIT     == 3
SYS_CREATE   == 4
SYS_REMOVE   == 5
SYS_OPEN     == 6
SYS_FILESIZE == 7
SYS_READ     == 8
SYS_WRITE    == 9
SYS_SEEK     == 10
SYS_TELL     == 11
SYS_CLOSE    == 12
TID_ERROR    == -1

Supported == SYS_HALT..SYS_CLOSE

(* ------------------------------------------------------------------ *)
(* User memory.  The 32-bit address space is scaled to 6 bits; as in   *)
(* the kernel, PHYS_BASE sits at three quarters of it (0xC0000000 of   *)
(* 2^32).  Page 0 is never mapped; one data page and the user stack    *)
(* just below PHYS_BASE are.                                           *)
(* ------------------------------------------------------------------ *)
AddrSpace == 2^6
PHYS_BASE == 3 * (AddrSpace \div 4)
Mapped    == (4..7) \cup (32..(PHYS_BASE - 1))

Wrap(a) == a % AddrSpace                 \* pointer arithmetic is modular

UserByte(a) == IF a = 5 THEN 255 ELSE a % 200   \* content of mapped bytes

(* get_user loading the byte with sign extension (movsbl). *)
get_user_signed(uaddr) ==
  IF uaddr < PHYS_BASE
    THEN IF uaddr \in Mapped
           THEN IF UserByte(uaddr) >= 128 THEN UserByte(uaddr) - 256
                ELSE UserByte(uaddr)
           ELSE -1
    ELSE -1

(* get_user: the byte at uaddr, or -1 when uaddr is not below PHYS_BASE or
   the access faults. *)
get_user(uaddr) ==
  IF uaddr < PHYS_BASE
    THEN IF uaddr \in Mapped THEN UserByte(uaddr) ELSE -1
    ELSE -1

(* get_user_bytes: byte-wise get_user; -1 at the first failure, else bytes. *)
RECURSIVE get_user_bytes_from(_, _, _)
get_user_bytes_from(uaddr, i, bytes) ==
  IF i < bytes
    THEN IF get_user(Wrap(uaddr + i)) = -1
           THEN -1
           ELSE get_user_bytes_from(uaddr, i + 1, bytes)
    ELSE bytes

get_user_bytes(uaddr, bytes) == get_user_bytes_from(uaddr, 0, bytes)

(* ------------------------------------------------------------------ *)
(* Inputs a user program can present.  A process runs one of two       *)
(* programs: "wide" draws its arguments from the large sets, "narrow"  *)
(* from a few values that still reach every handler.                   *)
(* ------------------------------------------------------------------ *)
CodeSet == 0..14                     \* system-call numbers (13, 14 unknown)
Chars   == {0, 65}                   \* keyboard: a null byte and a letter
KeySeqs == [1..MaxSize -> Chars]     \* the keys input_getc will deliver

Wide ==
  [esps   |-> {8, 32, 36, 40, 44, 46},    \* user stack pointers
   fds    |-> {-1, 0, 1} \cup (3..MaxId),  \* descriptor arguments
   bufs   |-> {4, 7, PHYS_BASE},          \* buffer pointers
   sizes  |-> 0..MaxSize,
   names  |-> {4, PHYS_BASE},             \* string pointers
   status |-> {0, 1},
   maxid  |-> MaxId]

Narrow ==
  [esps   |-> {32, 46},
   fds    |-> {1, 3, 4},
   bufs   |-> {4, PHYS_BASE},
   sizes  |-> {MaxSize - 1},
   names  |-> {4},
   status |-> {0},
   maxid  |-> MaxId - 1]

(* ------------------------------------------------------------------ *)
(* State                                                               *)
(* ------------------------------------------------------------------ *)
VARIABLES
  pc,            \* pc[p]: "user", "acq" (blocked in lock_acquire), "cs",
                 \*        "dead", or "none" when p was never started
  cur,           \* cur[p]: the call p is inside (code and arguments)
  descriptores,  \* descriptores[p]: thread's descriptor list, <<[id, file]>>
  pcb,           \* pcb[p]: [present, terminado, exit_code]
  archivos,      \* the global file-system lock: [holder], 0 when free
  kernel,        \* "running", "panic" (failed ASSERT), "off" (powered off)
  last,          \* what the most recent step of the dispatcher did
  prog,          \* prog[p]: the program p runs: "wide", "narrow", "none"
  fp,            \* fixed-point arithmetic: the value at hand and what was done
  timer,         \* timed sleep: ticks, the sleep list, the sleeping threads
  sema,          \* a semaphore and the threads that use it
  donation,      \* threads and locks under priority donation
  children       \* parent and child: the PCB and its two semaphores

vars == <<pc, cur, descriptores, pcb, archivos, kernel, last, prog,
          fp, timer, sema, donation, children>>

(* The parts of the kernel other than the dispatcher; each specification
   below exercises one part and leaves the others as they are. *)
Unused == "unused"
others == <<fp, timer, sema, donation, children>>

In(p) == IF prog[p] = "wide" THEN Wide ELSE Narrow

NoCall == [code |-> -1, fd |-> 0, ptr |-> 0, n |-> 0]
NoRet  == -99    \* f->eax not written

(* The record of a dispatcher step by p. *)
Ev(p, op, code) ==
  [proc |-> p, op |-> op, code |-> code,
   esp |-> 0,          \* the user stack pointer of the call
   fault |-> -1,       \* the stack word whose read failed (0: the number)
   fd |-> 0, ptr |-> 0, n |-> 0,            \* the arguments read
   held |-> FALSE,     \* whether p held archivos when the step began
   pre |-> <<>>,       \* p's descriptor list when the step began
   ret |-> NoRet,      \* f->eax
   out |-> <<>>,       \* console output: printf and putbuf
   fs |-> <<>>,        \* calls into the file system
   keys |-> <<>>,      \* the keys waiting in the keyboard
   getc |-> 0,         \* how many input_getc calls were made
   writes |-> <<>>]    \* <<offset, byte>> stored through the buffer

(* The state once the processes of `programs` have been started. *)
Started(programs) ==
  /\ prog = programs
  /\ pc = [p \in Procs |-> IF programs[p] = "none" THEN "none" ELSE "user"]
  /\ cur = [p \in Procs |-> NoCall]
  /\ descriptores = [p \in Procs |-> <<>>]
  /\ pcb = [p \in Procs |->
              [present |-> programs[p] # "none", terminado |-> FALSE,
               exit_code |-> 0]]
  /\ archivos = [holder |-> 0]
  /\ kernel = "running"
  /\ last = Ev(0, "init", -1)

(* One process with the wide program. *)
Init ==
  /\ Started([p \in Procs |-> IF p = 1 THEN "wide" ELSE "none"])
  /\ fp = Unused /\ timer = Unused /\ sema = Unused
  /\ donation = Unused /\ children = Unused

(* Every process runs the narrow program. *)
InitConc ==
  /\ Started([p \in Procs |-> "narrow"])
  /\ fp = Unused /\ timer = Unused /\ sema = Unused
  /\ donation = Unused /\ children = Unused

(* ------------------------------------------------------------------ *)
(* The lock archivos (threads/synch.c)                                 *)
(* ------------------------------------------------------------------ *)
lock_held_by_current_thread(p) == archivos.holder = p

(* if (lock_held_by_current_thread (&archivos)) lock_release (&archivos); *)
ReleaseIfHeld(p) ==
  IF lock_held_by_current_thread(p) THEN [holder |-> 0] ELSE archivos

(* ------------------------------------------------------------------ *)
(* Ways a handler leaves the dispatcher                                *)
(* ------------------------------------------------------------------ *)
(* sys_exit without its printf. *)
sys_exit_no_line(p, status, lk, e) ==
  /\ pc' = [pc EXCEPT ![p] = "dead"]
  /\ cur' = [cur EXCEPT ![p] = NoCall]
  /\ pcb' = IF pcb[p].present
              THEN [pcb EXCEPT ![p].terminado = TRUE, ![p].exit_code = status]
              ELSE pcb
  /\ archivos' = lk
  /\ last' = e
  /\ UNCHANGED <<descriptores, kernel, prog>>
  /\ UNCHANGED others

(* sys_exit leaving exit_code of the PCB as it was. *)
sys_exit_no_code(p, status, lk, e) ==
  /\ pc' = [pc EXCEPT ![p] = "dead"]
  /\ cur' = [cur EXCEPT ![p] = NoCall]
  /\ pcb' = IF pcb[p].present
              THEN [pcb EXCEPT ![p].terminado = TRUE]
              ELSE pcb
  /\ archivos' = lk
  /\ last' = [e EXCEPT !.out = Append(e.out, <<"exit", p, status>>)]
  /\ UNCHANGED <<descriptores, kernel, prog>>
  /\ UNCHANGED others

(* sys_exit: print the exit line, fill the PCB, thread_exit.  lk is the
   lock as the caller left it. *)
sys_exit(p, status, lk, e) ==
  /\ pc' = [pc EXCEPT ![p] = "dead"]
  /\ cur' = [cur EXCEPT ![p] = NoCall]
  /\ pcb' = IF pcb[p].present
              THEN [pcb EXCEPT ![p].terminado = TRUE, ![p].exit_code = status]
              ELSE pcb
  /\ archivos' = lk
  /\ last' = [e EXCEPT !.out = Append(e.out, <<"exit", p, status>>)]
  /\ UNCHANGED <<descriptores, kernel, prog>>
  /\ UNCHANGED others

(* The fault path of syscall_handler and of most handlers: release archivos
   if the thread holds it, then sys_exit(-1). *)
FaultExit(p, e) == sys_exit(p, -1, ReleaseIfHeld(p), e)

(* The handler reached lock_acquire(&archivos): the thread takes the lock
   when it is free, blocks in it while another thread holds it, and fails
   ASSERT (!lock_held_by_current_thread (lock)) when it holds it itself. *)
ToAcquire(p, call, e) ==
  /\ pc' = [pc EXCEPT ![p] = IF archivos.holder = 0 THEN "cs"
                              ELSE IF archivos.holder = p THEN pc[p]
                              ELSE "acq"]
  /\ cur' = [cur EXCEPT ![p] = call]
  /\ archivos' = IF archivos.holder = 0 THEN [holder |-> p] ELSE archivos
  /\ kernel' = IF archivos.holder = p THEN "panic" ELSE kernel
  /\ last' = e
  /\ UNCHANGED <<descriptores, pcb, prog>>
  /\ UNCHANGED others

(* The handler returned to syscall_handler, which stores ret in f->eax
   (NoRet for the void handlers) and returns to user mode. *)
ReturnToUser(p, ret, e) ==
  /\ pc' = [pc EXCEPT ![p] = "user"]
  /\ cur' = [cur EXCEPT ![p] = NoCall]
  /\ last' = [e EXCEPT !.ret = ret]
  /\ UNCHANGED others

(* ------------------------------------------------------------------ *)
(* syscall_handler: reading the call number and the arguments          *)
(* ------------------------------------------------------------------ *)
ArgOk(esp, k) == get_user_bytes(Wrap(esp + 4 * k), 4) # -1

E0(p, esp, code) ==
  [Ev(p, "entry", code) EXCEPT !.esp = esp, !.pre = descriptores[p],
                               !.held = (archivos.holder = p)]

(* The call number was read and selects the arm of `code`. *)
Dispatch(p, esp) ==
  /\ kernel = "running"
  /\ pc[p] = "user"
  /\ get_user_bytes(esp, 4) # -1

(* The 4 bytes at esp cannot be read. *)
CodeFault(p) ==
  \E esp \in In(p).esps :
    /\ kernel = "running"
    /\ pc[p] = "user"
    /\ get_user_bytes(esp, 4) = -1
    /\ FaultExit(p, [E0(p, esp, -1) EXCEPT !.fault = 0])

(* The default arm without its printf. *)
Unimplemented_silent(p) ==
  \E esp \in In(p).esps, code \in CodeSet \ Supported :
    /\ Dispatch(p, esp)
    /\ sys_exit(p, -1, archivos, E0(p, esp, code))

(* default arm *)
Unimplemented(p) ==
  \E esp \in In(p).esps, code \in CodeSet \ Supported :
    /\ Dispatch(p, esp)
    /\ sys_exit(p, -1, archivos,
                [E0(p, esp, code) EXCEPT !.out = <<<<"unimplemented", code>>>>])

(* SYS_HALT: shutdown_power_off() *)
Halt(p) ==
  \E esp \in In(p).esps :
    /\ Dispatch(p, esp)
    /\ kernel' = "off"
    /\ last' = E0(p, esp, SYS_HALT)
    /\ UNCHANGED <<pc, cur, descriptores, pcb, archivos, prog>>
    /\ UNCHANGED others

(* SYS_EXIT *)
Exit(p) ==
  \E esp \in In(p).esps :
    /\ Dispatch(p, esp)
    /\ LET e == E0(p, esp, SYS_EXIT) IN
       IF ~ArgOk(esp, 1) THEN FaultExit(p, [e EXCEPT !.fault = 1])
       ELSE \E status \in In(p).status :
              sys_exit(p, status, archivos, [e EXCEPT !.n = status])

(* ------------------------------------------------------------------ *)
(* The handlers up to their lock_acquire(&archivos)                    *)
(* ------------------------------------------------------------------ *)
Call(code, fd, ptr, n) == [code |-> code, fd |-> fd, ptr |-> ptr, n |-> n]

(* sys_write without the probe of the last byte of the buffer. *)
sys_write_first_byte_only(p, fd, buffer, size, e) ==
  IF get_user(buffer) = -1
    THEN FaultExit(p, e)
    ELSE ToAcquire(p, Call(SYS_WRITE, fd, buffer, size), e)

sys_write(p, fd, buffer, size, e) ==
  IF get_user(buffer) = -1
    THEN FaultExit(p, e)
  ELSE IF get_user(Wrap(buffer + size - 1)) = -1
    THEN FaultExit(p, e)
  ELSE ToAcquire(p, Call(SYS_WRITE, fd, buffer, size), e)

sys_read(p, fd, buffer, size, e) ==
  IF get_user(buffer) = -1
    THEN FaultExit(p, e)
  ELSE IF get_user(Wrap(buffer + size - 1)) = -1
    THEN FaultExit(p, e)
  ELSE ToAcquire(p, Call(SYS_READ, fd, buffer, size), e)

(* sys_exec without the check of cmd_line. *)
sys_exec_unchecked(p, cmd_line, e) ==
  ToAcquire(p, Call(SYS_EXEC, 0, cmd_line, 0), e)

(* sys_exec leaves through sys_exit without looking at the lock. *)
sys_exec(p, cmd_line, e) ==
  IF get_user(cmd_line) = -1
    THEN sys_exit(p, -1, archivos, e)
    ELSE ToAcquire(p, Call(SYS_EXEC, 0, cmd_line, 0), e)

sys_create(p, file, initial_size, e) ==
  IF get_user(file) = -1
    THEN FaultExit(p, e)
    ELSE ToAcquire(p, Call(SYS_CREATE, 0, file, initial_size), e)

sys_remove(p, file, e) ==
  IF get_user(file) = -1
    THEN FaultExit(p, e)
    ELSE ToAcquire(p, Call(SYS_REMOVE, 0, file, 0), e)

(* Numbering after the first descriptor of the list instead of the last. *)
NewId_from_front(tabla) ==
  IF tabla = <<>> THEN 3 ELSE tabla[1].id + 1

(* Numbering by the length of the list instead of by its last id; the two
   differ once a descriptor has been closed. *)
NewId_by_count(tabla) ==
  IF tabla = <<>> THEN 3 ELSE Len(tabla) + 3

(* The id sys_open gives the new descriptor. *)
NewId(tabla) ==
  IF tabla = <<>> THEN 3 ELSE tabla[Len(tabla)].id + 1

(* palloc: whether palloc_get_page(0) gave a page. *)
sys_open(p, file, palloc, e) ==
  IF get_user(file) = -1
    THEN FaultExit(p, e)
  ELSE IF ~palloc
    THEN /\ ReturnToUser(p, -1, e)
         /\ UNCHANGED <<descriptores, pcb, archivos, kernel, prog>>
  ELSE ToAcquire(p, Call(SYS_OPEN, 0, file, 0), e)

sys_close(p, fd, e) == ToAcquire(p, Call(SYS_CLOSE, fd, 0, 0), e)

(* get_user(fd): the descriptor number cast to a pointer and probed. *)
sys_filesize(p, fd, e) ==
  IF get_user(Wrap(fd)) = -1
    THEN FaultExit(p, e)
    ELSE ToAcquire(p, Call(SYS_FILESIZE, fd, 0, 0), e)

sys_seek(p, fd, position, e) == ToAcquire(p, Call(SYS_SEEK, fd, 0, position), e)

(* sys_tell without lock_acquire(&archivos). *)
sys_tell_unlocked(p, fd, e) ==
  /\ pc' = [pc EXCEPT ![p] = "cs"]
  /\ cur' = [cur EXCEPT ![p] = Call(SYS_TELL, fd, 0, 0)]
  /\ last' = e
  /\ UNCHANGED <<descriptores, pcb, archivos, kernel, prog>>
  /\ UNCHANGED others

sys_tell(p, fd, e) == ToAcquire(p, Call(SYS_TELL, fd, 0, 0), e)

(* process_wait (userprog/process.c): the exit code of the child, or -1. *)
process_wait_results == {-1, 0}

sys_wait(p, pid, e) ==
  \E r \in process_wait_results :
    /\ ReturnToUser(p, r, e)
    /\ UNCHANGED <<descriptores, pcb, archivos, kernel, prog>>

(* ------------------------------------------------------------------ *)
(* The arms of syscall_handler                                         *)
(* ------------------------------------------------------------------ *)
Write(p) ==
  \E esp \in In(p).esps :
    /\ Dispatch(p, esp)
    /\ LET e == E0(p, esp, SYS_WRITE) IN
       IF ~ArgOk(esp, 1) THEN FaultExit(p, [e EXCEPT !.fault = 1])
       ELSE IF ~ArgOk(esp, 2) THEN FaultExit(p, [e EXCEPT !.fault = 2])
       ELSE IF ~ArgOk(esp, 3) THEN FaultExit(p, [e EXCEPT !.fault = 3])
       ELSE \E fd \in In(p).fds, buffer \in In(p).bufs, size \in In(p).sizes :
              sys_write(p, fd, buffer, size,
                        [e EXCEPT !.fd = fd, !.ptr = buffer, !.n = size])

Read(p) ==
  \E esp \in In(p).esps :
    /\ Dispatch(p, esp)
    /\ LET e == E0(p, esp, SYS_READ) IN
       IF ~ArgOk(esp, 1) THEN FaultExit(p, [e EXCEPT !.fault = 1])
       ELSE IF ~ArgOk(esp, 2) THEN FaultExit(p, [e EXCEPT !.fault = 2])
       ELSE IF ~ArgOk(esp, 3) THEN FaultExit(p, [e EXCEPT !.fault = 3])
       ELSE \E fd \in In(p).fds, buffer \in In(p).bufs, size \in In(p).sizes :
              sys_read(p, fd, buffer, size,
                       [e EXCEPT !.fd = fd, !.ptr = buffer, !.n = size])

Exec(p) ==
  \E esp \in In(p).esps :
    /\ Dispatch(p, esp)
    /\ LET e == E0(p, esp, SYS_EXEC) IN
       IF ~ArgOk(esp, 1) THEN FaultExit(p, [e EXCEPT !.fault = 1])
       ELSE \E cmd_line \in In(p).names :
              sys_exec(p, cmd_line, [e EXCEPT !.ptr = cmd_line])

Create(p) ==
  \E esp \in In(p).esps :
    /\ Dispatch(p, esp)
    /\ LET e == E0(p, esp, SYS_CREATE) IN
       IF ~ArgOk(esp, 1) THEN FaultExit(p, [e EXCEPT !.fault = 1])
       ELSE IF ~ArgOk(esp, 2) THEN FaultExit(p, [e EXCEPT !.fault = 2])
       ELSE \E filename \in In(p).names :
              sys_create(p, filename, 1, [e EXCEPT !.ptr = filename, !.n = 1])

Remove(p) ==
  \E esp \in In(p).esps :
    /\ Dispatch(p, esp)
    /\ LET e == E0(p, esp, SYS_REMOVE) IN
       IF ~ArgOk(esp, 1) THEN FaultExit(p, [e EXCEPT !.fault = 1])
       ELSE \E filename \in In(p).names :
              sys_remove(p, filename, [e EXCEPT !.ptr = filename])

Open(p) ==
  \E esp \in In(p).esps :
    /\ Dispatch(p, esp)
    /\ NewId(descriptores[p]) <= In(p).maxid
    /\ LET e == E0(p, esp, SYS_OPEN) IN
       IF ~ArgOk(esp, 1) THEN FaultExit(p, [e EXCEPT !.fault = 1])
       ELSE \E filename \in In(p).names, palloc \in BOOLEAN :
              sys_open(p, filename, palloc, [e EXCEPT !.ptr = filename])

Close(p) ==
  \E esp \in In(p).esps :
    /\ Dispatch(p, esp)
    /\ LET e == E0(p, esp, SYS_CLOSE) IN
       IF ~ArgOk(esp, 1) THEN FaultExit(p, [e EXCEPT !.fault = 1])
       ELSE \E fd \in In(p).fds :
              sys_close(p, fd, [e EXCEPT !.fd = fd])

Filesize(p) ==
  \E esp \in In(p).esps :
    /\ Dispatch(p, esp)
    /\ LET e == E0(p, esp, SYS_FILESIZE) IN
       IF ~ArgOk(esp, 1) THEN FaultExit(p, [e EXCEPT !.fault = 1])
       ELSE \E fd \in In(p).fds :
              sys_filesize(p, fd, [e EXCEPT !.fd = fd])

Wait(p) ==
  \E esp \in In(p).esps :
    /\ Dispatch(p, esp)
    /\ LET e == E0(p, esp, SYS_WAIT) IN
       IF ~ArgOk(esp, 1) THEN FaultExit(p, [e EXCEPT !.fault = 1])
       ELSE \E pid \in Procs :
              sys_wait(p, pid, [e EXCEPT !.n = pid])

(* The SYS_SEEK arm taking `position` without checking that it was read. *)
Seek_position_unchecked(p) ==
  \E esp \in In(p).esps :
    /\ Dispatch(p, esp)
    /\ LET e == E0(p, esp, SYS_SEEK) IN
       IF ~ArgOk(esp, 1) THEN FaultExit(p, [e EXCEPT !.fault = 1])
       ELSE \E fd \in In(p).fds, position \in {1} :
              sys_seek(p, fd, position, [e EXCEPT !.fd = fd, !.n = position])

Seek(p) ==
  \E esp \in In(p).esps :
    /\ Dispatch(p, esp)
    /\ LET e == E0(p, esp, SYS_SEEK) IN
       IF ~ArgOk(esp, 1) THEN FaultExit(p, [e EXCEPT !.fault = 1])
       ELSE IF ~ArgOk(esp, 2) THEN FaultExit(p, [e EXCEPT !.fault = 2])
       ELSE \E fd \in In(p).fds, position \in {1} :
              sys_seek(p, fd, position, [e EXCEPT !.fd = fd, !.n = position])

Tell(p) ==
  \E esp \in In(p).esps :
    /\ Dispatch(p, esp)
    /\ LET e == E0(p, esp, SYS_TELL) IN
       IF ~ArgOk(esp, 1) THEN FaultExit(p, [e EXCEPT !.fault = 1])
       ELSE \E fd \in In(p).fds :
              sys_tell(p, fd, [e EXCEPT !.fd = fd])

(* ------------------------------------------------------------------ *)
(* lock_acquire(&archivos) (threads/synch.c)                           *)
(* ------------------------------------------------------------------ *)
(* A thread blocked in lock_acquire is woken once the lock is free and
   takes it. *)
LockAcquire(p) ==
  /\ kernel = "running"
  /\ pc[p] = "acq"
  /\ archivos.holder = 0
  /\ archivos' = [holder |-> p]
  /\ pc' = [pc EXCEPT ![p] = "cs"]
  /\ last' = Ev(p, "acquire", cur[p].code)
  /\ UNCHANGED <<cur, descriptores, pcb, kernel, prog>>
  /\ UNCHANGED others

(* ------------------------------------------------------------------ *)
(* The handlers from lock_acquire on                                   *)
(* ------------------------------------------------------------------ *)
InBody(p, code) ==
  /\ kernel = "running"
  /\ pc[p] = "cs"
  /\ cur[p].code = code

EB(p) ==
  [Ev(p, "body", cur[p].code) EXCEPT !.fd = cur[p].fd, !.ptr = cur[p].ptr,
                                     !.n = cur[p].n, !.pre = descriptores[p],
                                     !.held = (archivos.holder = p)]

(* A call into the file system, and whether its caller holds archivos. *)
FsCall(p, op, file) ==
  [op |-> op, by |-> p, file |-> file, held |-> (archivos.holder = p)]

(* The handler returns ret with the table left as tabla; release tells
   whether it calls lock_release(&archivos) on the way (lock_release
   asserts that the caller holds the lock). *)
Finish(p, ret, e, tabla, release) ==
  /\ ReturnToUser(p, ret, e)
  /\ descriptores' = [descriptores EXCEPT ![p] = tabla]
  /\ archivos' = IF release /\ archivos.holder = p
                   THEN [holder |-> 0] ELSE archivos
  /\ kernel' = IF release /\ archivos.holder # p THEN "panic" ELSE kernel
  /\ UNCHANGED <<pcb, prog>>

(* obtener_descriptor: the position in the thread's list of the descriptor
   whose id is fd, 0 for NULL. *)
obtener_descriptor(p, fd) ==
  IF fd < 3
    THEN 0
    ELSE LET hits == {i \in 1..Len(descriptores[p]) :
                         descriptores[p][i].id = fd}
         IN IF hits = {} THEN 0
            ELSE CHOOSE i \in hits : \A j \in hits : i <= j

(* External file system: handles and what the calls answer. *)
NewFile(p) ==
  LET used == {descriptores[p][i].file : i \in 1..Len(descriptores[p])}
  IN CHOOSE h \in 1..(Len(descriptores[p]) + 1) :
       /\ h \notin used
       /\ \A g \in 1..(Len(descriptores[p]) + 1) : g \notin used => h <= g

file_length(file) == 10 * file
file_tell(file)   == 20 + file

SeqRemove(sq, i) == SubSeq(sq, 1, i - 1) \o SubSeq(sq, i + 1, Len(sq))

WriteBody(p) ==
  /\ InBody(p, SYS_WRITE)
  /\ LET c == cur[p]
         e == EB(p)
         i == obtener_descriptor(p, c.fd)
     IN IF c.fd = 1
          THEN Finish(p, c.n, [e EXCEPT !.out = <<<<"putbuf", c.ptr, c.n>>>>],
                      descriptores[p], TRUE)
        ELSE IF i # 0
          THEN \E r \in 0..c.n :
                 Finish(p, r,
                        [e EXCEPT !.fs = <<FsCall(p, "file_write",
                                                  descriptores[p][i].file)>>],
                        descriptores[p], TRUE)
        ELSE Finish(p, -1, e, descriptores[p], TRUE)

(* The keyboard loop of sys_read: every character goes to *buf, which is
   never advanced (the loop advances `buffer`), so writes are at offset 0. *)
RECURSIVE input_loop(_, _, _, _)
input_loop(counter, k, keys, writes) ==
  IF counter > 1
    THEN IF keys[k + 1] # 0
           THEN input_loop(counter - 1, k + 1, keys,
                           Append(writes, <<0, keys[k + 1]>>))
           ELSE [counter |-> counter, getc |-> k + 1, writes |-> writes]
    ELSE [counter |-> counter, getc |-> k, writes |-> writes]

ReadBody(p) ==
  /\ InBody(p, SYS_READ)
  /\ LET c == cur[p]
         e == EB(p)
         i == obtener_descriptor(p, c.fd)
     IN IF c.fd = 1
          THEN Finish(p, 0, e, descriptores[p], TRUE)   \* `retorno -1;`
        ELSE IF c.fd = 0
          THEN \E keys \in KeySeqs :
                 LET r == input_loop(c.n, 0, keys, <<>>) IN
                 Finish(p, c.n - r.counter,
                        [e EXCEPT !.keys = keys, !.getc = r.getc,
                                  !.writes = Append(r.writes, <<0, 0>>)],
                        descriptores[p], TRUE)
        ELSE IF i # 0
          THEN \E r \in 0..c.n :
                 Finish(p, r,
                        [e EXCEPT !.fs = <<FsCall(p, "file_read",
                                                  descriptores[p][i].file)>>],
                        descriptores[p], TRUE)
        ELSE Finish(p, -1, e, descriptores[p], TRUE)

(* process_execute (userprog/process.c): the child's pid or TID_ERROR. *)
ExecBody(p) ==
  /\ InBody(p, SYS_EXEC)
  /\ \E pid \in {TID_ERROR, 2 + p} :
       Finish(p, pid, [EB(p) EXCEPT !.fs = <<FsCall(p, "process_execute", 0)>>],
              descriptores[p], TRUE)

CreateBody(p) ==
  /\ InBody(p, SYS_CREATE)
  /\ \E ok \in {0, 1} :
       Finish(p, ok, [EB(p) EXCEPT !.fs = <<FsCall(p, "filesys_create", 0)>>],
              descriptores[p], TRUE)

RemoveBody(p) ==
  /\ InBody(p, SYS_REMOVE)
  /\ \E ok \in {0, 1} :
       Finish(p, ok, [EB(p) EXCEPT !.fs = <<FsCall(p, "filesys_remove", 0)>>],
              descriptores[p], TRUE)

OpenBody(p) ==
  /\ InBody(p, SYS_OPEN)
  /\ \E file_opened \in {0, NewFile(p)} :      \* 0: filesys_open gave NULL
       LET e == [EB(p) EXCEPT !.fs = <<FsCall(p, "filesys_open", file_opened)>>]
           fd == [id |-> NewId(descriptores[p]), file |-> file_opened]
       IN IF file_opened = 0
            THEN Finish(p, -1, e, descriptores[p], TRUE)
            ELSE Finish(p, fd.id, e, Append(descriptores[p], fd), TRUE)

CloseBody(p) ==
  /\ InBody(p, SYS_CLOSE)
  /\ LET i == obtener_descriptor(p, cur[p].fd) IN
     IF i # 0
       THEN Finish(p, NoRet,
                   [EB(p) EXCEPT !.fs = <<FsCall(p, "file_close",
                                                 descriptores[p][i].file)>>],
                   SeqRemove(descriptores[p], i), TRUE)
       ELSE Finish(p, NoRet, EB(p), descriptores[p], TRUE)

FilesizeBody(p) ==
  /\ InBody(p, SYS_FILESIZE)
  /\ LET i == obtener_descriptor(p, cur[p].fd) IN
     IF i = 0
       THEN Finish(p, -1, EB(p), descriptores[p], TRUE)
       ELSE Finish(p, file_length(descriptores[p][i].file),
                   [EB(p) EXCEPT !.fs = <<FsCall(p, "file_length",
                                                 descriptores[p][i].file)>>],
                   descriptores[p], TRUE)

(* sys_seek returns without lock_release when the descriptor is not found. *)
SeekBody(p) ==
  /\ InBody(p, SYS_SEEK)
  /\ LET i == obtener_descriptor(p, cur[p].fd) IN
     IF i # 0
       THEN Finish(p, NoRet,
                   [EB(p) EXCEPT !.fs = <<FsCall(p, "file_seek",
                                                 descriptores[p][i].file)>>],
                   descriptores[p], TRUE)
       ELSE Finish(p, NoRet, EB(p), descriptores[p], FALSE)

TellBody(p) ==
  /\ InBody(p, SYS_TELL)
  /\ LET i == obtener_descriptor(p, cur[p].fd) IN
     IF i # 0
       THEN Finish(p, file_tell(descriptores[p][i].file),
                   [EB(p) EXCEPT !.fs = <<FsCall(p, "file_tell",
                                                 descriptores[p][i].file)>>],
                   descriptores[p], TRUE)
       ELSE Finish(p, -1, EB(p), descriptores[p], TRUE)

(* ------------------------------------------------------------------ *)
(* The specification                                                   *)
(* ------------------------------------------------------------------ *)
(* The steps of process p inside the dispatcher. *)
Handler(p) ==
  \/ CodeFault(p)
  \/ Unimplemented(p)
  \/ Halt(p)
  \/ Exit(p)
  \/ Write(p)
  \/ Read(p)
  \/ Exec(p)
  \/ Create(p)
  \/ Remove(p)
  \/ Open(p)
  \/ Close(p)
  \/ Filesize(p)
  \/ Wait(p)
  \/ Seek(p)
  \/ Tell(p)
  \/ WriteBody(p)
  \/ ReadBody(p)
  \/ ExecBody(p)
  \/ CreateBody(p)
  \/ RemoveBody(p)
  \/ OpenBody(p)
  \/ CloseBody(p)
  \/ FilesizeBody(p)
  \/ SeekBody(p)
  \/ TellBody(p)

(* A single process never waits for the lock. *)
Next == \E p \in Procs : Handler(p)

NextConc == \E p \in Procs : Handler(p) \/ LockAcquire(p)

Spec == Init /\ [][Next]_vars

SpecConc == InitConc /\ [][NextConc]_vars

(* Fair scheduling: a thread inside a handler body goes on, since every
   call into the file system returns; a thread blocked in lock_acquire gets
   the lock if it is free again and again.  A process in user mode need not
   make another system call. *)
BodyStep(p) ==
  \/ WriteBody(p)
  \/ ReadBody(p)
  \/ ExecBody(p)
  \/ CreateBody(p)
  \/ RemoveBody(p)
  \/ OpenBody(p)
  \/ CloseBody(p)
  \/ FilesizeBody(p)
  \/ SeekBody(p)
  \/ TellBody(p)

Fairness ==
  \A p \in Procs : WF_vars(BodyStep(p)) /\ SF_vars(LockAcquire(p))

SpecFair == InitConc /\ [][NextConc]_vars /\ Fairness

(* ------------------------------------------------------------------ *)
(* get_user_bytes on its own                                           *)
(* ------------------------------------------------------------------ *)
WordSize == 4        \* sizeof (int): the most bytes the dispatcher reads

(* What get_user_bytes has stored in dst when it returns: <<i, byte>> for
   every byte before the first failure. *)
RECURSIVE get_user_bytes_dst(_, _, _, _)
get_user_bytes_dst(uaddr, i, bytes, dst) ==
  IF i < bytes
    THEN LET valor == get_user(Wrap(uaddr + i)) IN
         IF valor = -1
           THEN dst
           ELSE get_user_bytes_dst(uaddr, i + 1, bytes,
                                   Append(dst, <<i, valor % 256>>))
    ELSE dst

(* A call of get_user_bytes with any address and up to WordSize bytes,
   tried before the process makes its first system call. *)
GetUserBytes ==
  \E uaddr \in 0..(AddrSpace - 1), bytes \in 0..WordSize :
    /\ last.op \in {"init", "get_user_bytes"}
    /\ last' = [Ev(0, "get_user_bytes", -1) EXCEPT
                  !.ptr = uaddr, !.n = bytes,
                  !.ret = get_user_bytes(uaddr, bytes),
                  !.writes = get_user_bytes_dst(uaddr, 0, bytes, <<>>)]
    /\ UNCHANGED <<pc, cur, descriptores, pcb, archivos, kernel, prog>>
    /\ UNCHANGED others

NextBytes == Next \/ GetUserBytes

SpecBytes == Init /\ [][NextBytes]_vars

(* ------------------------------------------------------------------ *)
(* Fixed-point arithmetic (threads/thread.h)                           *)
(* ------------------------------------------------------------------ *)
MaxInt == 3          \* integers -MaxInt .. MaxInt and the fixed-point values
                     \* between them are tried

CORRIMIENTO == 12

(* << and >> on int as the kernel's compiler defines them: << multiplies,
   >> of a negative value keeps the sign (it rounds towards minus
   infinity). *)
ShiftLeft(x, k)  == x * 2^k
ShiftRight(x, k) == x \div 2^k

CONV_N(N) == ShiftLeft(N, CORRIMIENTO)

ROUND_X(X) ==
  IF X >= 0
    THEN ShiftRight(X + ShiftLeft(1, CORRIMIENTO - 1), CORRIMIENTO)
    ELSE ShiftRight(X - ShiftLeft(1, CORRIMIENTO - 1), CORRIMIENTO)

FixedInputs == (- CONV_N(MaxInt))..CONV_N(MaxInt)

(* A value is given, then one of the macros is applied to it. *)
InitFixed ==
  /\ Started([p \in Procs |-> "none"])
  /\ fp \in [op : {"input"}, x : FixedInputs, r : {0}]
  /\ timer = Unused /\ sema = Unused
  /\ donation = Unused /\ children = Unused

FixedStep(op, r) ==
  /\ fp.op = "input"
  /\ fp' = [fp EXCEPT !.op = op, !.r = r]
  /\ UNCHANGED <<pc, cur, descriptores, pcb, archivos, kernel, last, prog,
                 timer, sema, donation, children>>

Round ==
  /\ fp.x \in FixedInputs
  /\ FixedStep("round", ROUND_X(fp.x))

Convert ==
  /\ fp.x \in (- MaxInt)..MaxInt
  /\ FixedStep("convert", CONV_N(fp.x))

ConvertAndRound ==
  /\ fp.x \in (- MaxInt)..MaxInt
  /\ FixedStep("convert and round", ROUND_X(CONV_N(fp.x)))

NextFixed == Round \/ Convert \/ ConvertAndRound

SpecFixed == InitFixed /\ [][NextFixed]_vars

(* The macros with two operands.  The operands are small, so the 64-bit
   intermediate values never overflow. *)
(* / on integers in C truncates towards zero. *)
Quotient(a, b) ==
  LET abs(v) == IF v < 0 THEN - v ELSE v
      q == abs(a) \div abs(b)
  IN IF (a < 0) = (b < 0) THEN q ELSE - q

ADD_X_N(X, N) == X + ShiftLeft(N, CORRIMIENTO)
MUL_X_Y(X, Y) == ShiftRight(X * Y, CORRIMIENTO)
DIV_X_Y(X, Y) == Quotient(ShiftLeft(X, CORRIMIENTO), Y)

(* Fixed-point operands: the multiples of one half between -MaxInt and
   MaxInt. *)
MacroOperands ==
  {k * ShiftLeft(1, CORRIMIENTO - 1) : k \in (- 2 * MaxInt)..(2 * MaxInt)}

InitMacros ==
  /\ Started([p \in Procs |-> "none"])
  /\ fp \in [op : {"input"}, x : MacroOperands, y : MacroOperands,
             n : (- MaxInt)..MaxInt, r : {0}]
  /\ timer = Unused /\ sema = Unused
  /\ donation = Unused /\ children = Unused

ConvN ==
  /\ fp.n \in (- MaxInt)..MaxInt
  /\ FixedStep("CONV_N", CONV_N(fp.n))

AddXN ==
  /\ fp.x \in MacroOperands
  /\ FixedStep("ADD_X_N", ADD_X_N(fp.x, fp.n))

MulXY ==
  /\ fp.x \in MacroOperands
  /\ FixedStep("MUL_X_Y", MUL_X_Y(fp.x, fp.y))

DivXY ==
  /\ fp.y # 0
  /\ FixedStep("DIV_X_Y", DIV_X_Y(fp.x, fp.y))

NextMacros == ConvN \/ AddXN \/ MulXY \/ DivXY

SpecMacros == InitMacros /\ [][NextMacros]_vars

(* ------------------------------------------------------------------ *)
(* Timed sleep (devices/timer.c, threads/thread.c)                     *)
(* ------------------------------------------------------------------ *)
MaxTick  == 5        \* the timer is followed up to this tick
MaxSleep == 3        \* longest timer_sleep

Sleepers == {1, 2, 3}          \* the threads that call timer_sleep

(* timer.ticks          ticks since boot
   timer.lista_espera   the sleep list, a sequence of threads
   timer.TIEMPO_DORMIDO per thread, the wakeup tick; 0 when not sleeping
   timer.status         per thread, "ready" or "blocked"
   timer.wake_at        per thread, the wakeup tick of its latest sleep
   timer.woke_at        per thread, the tick in which that sleep ended; 0
                        while it has not *)
InitTimer ==
  /\ Started([p \in Procs |-> "none"])
  /\ timer = [ticks |-> 0,
              lista_espera |-> <<>>,
              TIEMPO_DORMIDO |-> [t \in Sleepers |-> 0],
              status |-> [t \in Sleepers |-> "ready"],
              wake_at |-> [t \in Sleepers |-> 0],
              woke_at |-> [t \in Sleepers |-> 0]]
  /\ fp = Unused /\ sema = Unused
  /\ donation = Unused /\ children = Unused

TimerFrame ==
  UNCHANGED <<pc, cur, descriptores, pcb, archivos, kernel, last, prog,
              fp, sema, donation, children>>

(* Appending to the sleep list without regard to the order. *)
insertar_al_final(lista, t, wake, despertar) == Append(lista, t)

(* insertar_en_lista_espera: sorted insert by wakeup tick, behind the
   entries with the same wakeup tick. *)
insertar_en_lista_espera(lista, t, wake, despertar) ==
  LET before == {i \in 1..Len(lista) : despertar[lista[i]] <= wake}
      k == IF before = {} THEN 0
           ELSE CHOOSE i \in before : \A j \in before : j <= i
  IN SubSeq(lista, 1, k) \o <<t>> \o SubSeq(lista, k + 1, Len(lista))

(* timer_sleep(n), n > 0, by thread t. *)
TimerSleep(t) ==
  \E n \in 1..MaxSleep :
    /\ timer.status[t] = "ready"
    /\ timer.ticks + n <= MaxTick
    /\ LET wake == timer.ticks + n IN
       timer' = [timer EXCEPT
                   !.TIEMPO_DORMIDO[t] = wake,
                   !.lista_espera =
                      insertar_en_lista_espera(timer.lista_espera, t, wake,
                                               timer.TIEMPO_DORMIDO),
                   !.status[t] = "blocked",
                   !.wake_at[t] = wake,
                   !.woke_at[t] = 0]
    /\ TimerFrame

(* Waking the head of the list only, when it is due. *)
remover_solo_el_primero(lista, despertar, now) ==
  IF lista # <<>> /\ despertar[lista[1]] <= now THEN 1 ELSE 0

(* remover_thread_durmiente: how many threads at the head of the sleep list
   are due; the loop removes and unblocks them one after the other. *)
RECURSIVE remover_thread_durmiente(_, _, _)
remover_thread_durmiente(lista, despertar, now) ==
  IF lista # <<>> /\ despertar[lista[1]] <= now
    THEN 1 + remover_thread_durmiente(Tail(lista), despertar, now)
    ELSE 0

(* The timer interrupt: one more tick, then the wakeups. *)
Tick ==
  /\ timer.ticks < MaxTick
  /\ LET now == timer.ticks + 1
         k == remover_thread_durmiente(timer.lista_espera,
                                       timer.TIEMPO_DORMIDO, now)
         woken == {timer.lista_espera[i] : i \in 1..k}
     IN timer' = [timer EXCEPT
                    !.ticks = now,
                    !.lista_espera = SubSeq(timer.lista_espera, k + 1,
                                            Len(timer.lista_espera)),
                    !.TIEMPO_DORMIDO = [t \in Sleepers |->
                        IF t \in woken THEN 0 ELSE timer.TIEMPO_DORMIDO[t]],
                    !.status = [t \in Sleepers |->
                        IF t \in woken THEN "ready" ELSE timer.status[t]],
                    !.woke_at = [t \in Sleepers |->
                        IF t \in woken THEN now ELSE timer.woke_at[t]]]
  /\ TimerFrame

NextTimer == Tick \/ \E t \in Sleepers : TimerSleep(t)

SpecTimer == InitTimer /\ [][NextTimer]_vars

(* ------------------------------------------------------------------ *)
(* Semaphores (threads/synch.c)                                        *)
(* ------------------------------------------------------------------ *)
MaxValue == 1        \* sema_up is not called once the value reached this

Waiters == 1..5                          \* the threads that call sema_down
BasePriority == [t \in Waiters |-> 10 * t]
Donees == {1, 2}     \* the waiters that hold a lock and can receive a donation

(* sema.value     the semaphore's value
   sema.waiters   its wait queue, in order of arrival
   sema.priority  per thread, its effective priority
   sema.status    per thread: "out" (has not called sema_down), "blocked",
                  "ready" (unblocked, still inside sema_down), "done"
   sema.woken     the threads unblocked so far, in that order
   sema.all       whether all threads were in the queue at once
   sema.up        the latest sema_up that found waiters: the queue and the
                  priorities it found, and the thread it unblocked *)
InitSema ==
  /\ Started([p \in Procs |-> "none"])
  /\ sema = [value |-> 0,
             waiters |-> <<>>,
             priority |-> BasePriority,
             status |-> [t \in Waiters |-> "out"],
             woken |-> <<>>,
             all |-> FALSE,
             up |-> [queue |-> <<>>, priority |-> BasePriority, woke |-> 0]]
  /\ fp = Unused /\ timer = Unused
  /\ donation = Unused /\ children = Unused

SemaFrame ==
  UNCHANGED <<pc, cur, descriptores, pcb, archivos, kernel, last, prog,
              fp, timer, donation, children>>

(* sema_down: while the value is 0 the thread joins the queue and blocks. *)
SemaDown(t) ==
  /\ sema.status[t] = "out"
  /\ IF sema.value = 0
       THEN sema' = [sema EXCEPT
                       !.waiters = Append(sema.waiters, t),
                       !.status[t] = "blocked",
                       !.all = sema.all \/ Len(sema.waiters) + 1 =
                                             Cardinality(Waiters)]
       ELSE sema' = [sema EXCEPT !.value = sema.value - 1,
                                 !.status[t] = "done"]
  /\ SemaFrame

(* An unblocked thread runs again inside sema_down: it takes the value, or
   finds it taken and waits again. *)
SemaResume(t) ==
  /\ sema.status[t] = "ready"
  /\ IF sema.value = 0
       THEN sema' = [sema EXCEPT !.waiters = Append(sema.waiters, t),
                                 !.status[t] = "blocked"]
       ELSE sema' = [sema EXCEPT !.value = sema.value - 1,
                                 !.status[t] = "done"]
  /\ SemaFrame

(* A waiter that holds a lock receives the priority of a thread that blocks
   on that lock. *)
SemaDonate(t) ==
  \E u \in Waiters :
    /\ t \in Donees
    /\ sema.status[t] = "blocked"
    /\ sema.status[u] = "out"
    /\ BasePriority[u] > sema.priority[t]
    /\ sema' = [sema EXCEPT !.priority[t] = BasePriority[u]]
    /\ SemaFrame

(* The comparison with >= in place of >. *)
ordenarMayorIgual(a, b, priority) == priority[a] >= priority[b]

(* ordenarMayorMenor: whether the priority of a is greater than that of b. *)
ordenarMayorMenor(a, b, priority) == priority[a] > priority[b]

(* list_sort with ordenarMayorMenor: a stable sort, highest priority at the
   head. *)
RECURSIVE SortWaiters(_, _)
SortWaiters(queue, priority) ==
  IF queue = <<>> THEN <<>>
  ELSE LET rest == SortWaiters(SubSeq(queue, 1, Len(queue) - 1), priority)
           t == queue[Len(queue)]
           ahead == {i \in 1..Len(rest) :
                       ~ordenarMayorMenor(t, rest[i], priority)}
           k == IF ahead = {} THEN 0
                ELSE CHOOSE i \in ahead : \A j \in ahead : j <= i
       IN SubSeq(rest, 1, k) \o <<t>> \o SubSeq(rest, k + 1, Len(rest))

(* sema_up: with waiters, the queue is sorted by the priorities of the
   moment and its head unblocked; the value goes up by one. *)
SemaUp ==
  /\ sema.value < MaxValue
  /\ IF sema.waiters = <<>>
       THEN sema' = [sema EXCEPT !.value = sema.value + 1]
       ELSE LET w == SortWaiters(sema.waiters, sema.priority)[1] IN
            sema' = [sema EXCEPT
                       !.value = sema.value + 1,
                       !.waiters = SelectSeq(sema.waiters, LAMBDA u : u # w),
                       !.status[w] = "ready",
                       !.woken = Append(sema.woken, w),
                       !.up = [queue |-> sema.waiters,
                               priority |-> sema.priority,
                               woke |-> w]]
  /\ SemaFrame

NextSema ==
  \/ SemaUp
  \/ \E t \in Waiters : SemaDown(t) \/ SemaResume(t) \/ SemaDonate(t)

SpecSema == InitSema /\ [][NextSema]_vars

(* ------------------------------------------------------------------ *)
(* Priority donation (threads/synch.c, threads/thread.c)               *)
(* ------------------------------------------------------------------ *)
PRI_DEFAULT == 31
DonationDepth == 8                  \* longest holder chain a donation walks

Donors == 1..3                      \* threads, of base priority 31, 32, 33
Locks == {"A", "B"}
NoLock == "none"

(* donation.priority          per thread, the effective priority
   donation.priorityOriginal  per thread, the base priority
   donation.status            per thread: "ready", "blocked" (on a lock),
                              "asleep" (blocked on something else)
   donation.waiting_for_lock  per thread, the lock it is acquiring, or NoLock
   donation.holder            per lock, the holding thread, 0 for none
   donation.waiters           per lock, the queue of its semaphore
   donation.value             per lock, the value of its semaphore
   donation.did               the latest step *)
InitDonation ==
  /\ Started([p \in Procs |-> "none"])
  /\ donation = [priority |-> [t \in Donors |-> PRI_DEFAULT + t - 1],
                 priorityOriginal |-> [t \in Donors |-> PRI_DEFAULT + t - 1],
                 status |-> [t \in Donors |-> "ready"],
                 waiting_for_lock |-> [t \in Donors |-> NoLock],
                 holder |-> [l \in Locks |-> 0],
                 waiters |-> [l \in Locks |-> <<>>],
                 value |-> [l \in Locks |-> 1],
                 did |-> <<"init">>]
  /\ fp = Unused /\ timer = Unused
  /\ sema = Unused /\ children = Unused

DonationFrame ==
  UNCHANGED <<pc, cur, descriptores, pcb, archivos, kernel, last, prog,
              fp, timer, sema, children>>

Max(a, b) == IF a >= b THEN a ELSE b

(* One processor, strict priority: the thread that runs is a READY thread
   that no READY thread outranks. *)
Running(t) ==
  /\ donation.status[t] = "ready"
  /\ \A u \in Donors :
       donation.status[u] = "ready" =>
         donation.priority[u] <= donation.priority[t]

(* The donation walk of lock_acquire: raise the holder of lock l to the
   donor's priority p and, while the holder is itself blocked on a lock, go
   on to that lock's holder, for at most depth hops. *)
RECURSIVE DonateChain(_, _, _, _)
DonateChain(priority, l, p, depth) ==
  IF depth = 0 \/ donation.holder[l] = 0
    THEN priority
    ELSE LET h == donation.holder[l]
             raised == [priority EXCEPT ![h] = Max(@, p)]
         IN IF donation.status[h] = "blocked"
              THEN DonateChain(raised, donation.waiting_for_lock[h], p,
                               depth - 1)
              ELSE raised

(* lock_acquire(l) by the running thread t, up to the point where it has the
   lock or blocks. *)
DonationAcquire(t, l) ==
  /\ Running(t)
  /\ donation.waiting_for_lock[t] = NoLock
  /\ donation.holder[l] # t
  /\ IF donation.value[l] = 0
       THEN donation' = [donation EXCEPT
                           !.waiting_for_lock[t] = l,
                           !.priority = DonateChain(donation.priority, l,
                                                    donation.priority[t],
                                                    DonationDepth),
                           !.waiters[l] = Append(@, t),
                           !.status[t] = "blocked",
                           !.did = <<"acquire", t, l>>]
       ELSE donation' = [donation EXCEPT
                           !.value[l] = 0,
                           !.holder[l] = t,
                           !.did = <<"acquire", t, l>>]
  /\ DonationFrame

(* The thread sema_up unblocked runs again inside lock_acquire: it takes the
   lock, or finds it taken and blocks again. *)
DonationTake(t) ==
  /\ Running(t)
  /\ donation.waiting_for_lock[t] # NoLock
  /\ LET l == donation.waiting_for_lock[t] IN
     IF donation.value[l] = 0
       THEN donation' = [donation EXCEPT
                           !.waiters[l] = Append(@, t),
                           !.status[t] = "blocked",
                           !.did = <<"wait again", t, l>>]
       ELSE donation' = [donation EXCEPT
                           !.value[l] = 0,
                           !.holder[l] = t,
                           !.waiting_for_lock[t] = NoLock,
                           !.did = <<"take", t, l>>]
  /\ DonationFrame

(* The waiter sema_up pops: highest effective priority, first come first. *)
PopWaiter(queue, priority) ==
  CHOOSE i \in 1..Len(queue) :
    \A j \in 1..Len(queue) :
      \/ priority[queue[j]] < priority[queue[i]]
      \/ priority[queue[j]] = priority[queue[i]] /\ i <= j

(* The priority lock_release gives the releaser: its base priority or the
   highest priority among the waiters of the locks it still holds. *)
Recomputed(t, l) ==
  LET others_held == {m \in Locks \ {l} : donation.holder[m] = t}
      waiting == UNION {{donation.priority[donation.waiters[m][i]] :
                           i \in 1..Len(donation.waiters[m])} :
                        m \in others_held}
      all == waiting \cup {donation.priorityOriginal[t]}
  IN CHOOSE p \in all : \A q \in all : q <= p

(* lock_release(l) by the running holder t. *)
DonationRelease(t, l) ==
  /\ Running(t)
  /\ donation.waiting_for_lock[t] = NoLock
  /\ donation.holder[l] = t
  /\ LET q == donation.waiters[l]
         i == PopWaiter(q, donation.priority)
     IN donation' = [donation EXCEPT
                       !.holder[l] = 0,
                       !.priority[t] = Recomputed(t, l),
                       !.value[l] = 1,
                       !.waiters[l] = IF q = <<>> THEN q
                                      ELSE SubSeq(q, 1, i - 1) \o
                                           SubSeq(q, i + 1, Len(q)),
                       !.status = IF q = <<>> THEN @
                                  ELSE [@ EXCEPT ![q[i]] = "ready"],
                       !.did = <<"release", t, l>>]
  /\ DonationFrame

(* The running thread blocks on something other than these locks
   (timer_sleep, a semaphore), and is unblocked later. *)
DonationSleep(t) ==
  /\ Running(t)
  /\ donation.waiting_for_lock[t] = NoLock
  /\ donation' = [donation EXCEPT !.status[t] = "asleep",
                                  !.did = <<"sleep", t>>]
  /\ DonationFrame

DonationWake(t) ==
  /\ donation.status[t] = "asleep"
  /\ donation' = [donation EXCEPT !.status[t] = "ready",
                                  !.did = <<"wake", t>>]
  /\ DonationFrame

NextDonation ==
  \E t \in Donors :
    \/ \E l \in Locks : DonationAcquire(t, l) \/ DonationRelease(t, l)
    \/ DonationTake(t)
    \/ DonationSleep(t)
    \/ DonationWake(t)

SpecDonation == InitDonation /\ [][NextDonation]_vars

(* ------------------------------------------------------------------ *)
(* Parent and child (userprog/process.c)                               *)
(* ------------------------------------------------------------------ *)
(* children.procesos        per process, the list of its children's PCBs
   children.pid             per PCB, the pid field (0 until the load ended)
   children.esperando       per PCB, whether the parent waits or has waited
   children.inicializacion  per PCB, the value of the load semaphore
   children.esperar         per PCB, the value of the exit semaphore
   children.deboliberar     per PCB, whether the child frees it itself
   children.starting        per process, the child whose load it awaits
   children.waiting         per process, the child whose exit it awaits
   children.loaded          per process, how its load ended: "no", "ok",
                            "failed"
   children.made            per process, the children it started
   children.joined          per process, the children its WAIT returned for
   children.exited          per process, whether process_exit has run
   children.freed           per PCB, how many times it was freed
   The PCB of process c is pcb[c]; its pid is c. *)
InitProc ==
  /\ Started([p \in Procs |-> IF p = 1 THEN "wide" ELSE "none"])
  /\ children = [procesos |-> [p \in Procs |-> <<>>],
                 pid |-> [c \in Procs |-> 0],
                 esperando |-> [c \in Procs |-> FALSE],
                 inicializacion |-> [c \in Procs |-> 0],
                 esperar |-> [c \in Procs |-> 0],
                 deboliberar |-> [c \in Procs |-> FALSE],
                 starting |-> [p \in Procs |-> 0],
                 waiting |-> [p \in Procs |-> 0],
                 loaded |-> [c \in Procs |-> IF c = 1 THEN "ok" ELSE "no"],
                 made |-> [p \in Procs |-> {}],
                 joined |-> [p \in Procs |-> {}],
                 exited |-> [p \in Procs |-> FALSE],
                 freed |-> [c \in Procs |-> 0]]
  /\ fp = Unused /\ timer = Unused
  /\ sema = Unused /\ donation = Unused

ProcFrame == UNCHANGED <<fp, timer, sema, donation>>

NewPCB == [present |-> TRUE, terminado |-> FALSE, exit_code |-> 0]
NoPCB == [present |-> FALSE, terminado |-> FALSE, exit_code |-> 0]

(* process_execute, called by sys_exec under archivos: allocate the PCB, put
   it in the caller's list, create the child thread and block on the PCB's
   inicializacion; TID_ERROR when no thread can be created. *)
process_execute(p) ==
  /\ InBody(p, SYS_EXEC)
  /\ LET free == {c \in Procs : pc[c] = "none"}
         e == [EB(p) EXCEPT !.fs = <<FsCall(p, "process_execute", 0)>>]
     IN IF free = {}
          THEN Finish(p, TID_ERROR, e, descriptores[p], TRUE)
          ELSE LET c == CHOOSE c \in free : TRUE IN
               /\ children' = [children EXCEPT
                                 !.procesos[p] = Append(@, c),
                                 !.starting[p] = c,
                                 !.made[p] = @ \cup {c}]
               /\ pcb' = [pcb EXCEPT ![c] = NewPCB]
               /\ pc' = [pc EXCEPT ![p] = "exec", ![c] = "loading"]
               /\ prog' = [prog EXCEPT ![c] = "narrow"]
               /\ last' = e
               /\ UNCHANGED <<cur, descriptores, archivos, kernel>>
               /\ ProcFrame

(* The child thread: it tries to load the executable, sets the pid field of
   its PCB and signals inicializacion; after a failed load it exits. *)
start_process(c) ==
  /\ kernel = "running"
  /\ pc[c] = "loading"
  /\ \E success \in BOOLEAN :
       /\ children' = [children EXCEPT
                         !.pid[c] = IF success THEN c ELSE TID_ERROR,
                         !.inicializacion[c] = 1,
                         !.loaded[c] = IF success THEN "ok" ELSE "failed"]
       /\ pc' = [pc EXCEPT ![c] = IF success THEN "user" ELSE "dead"]
  /\ last' = Ev(c, "load", -1)
  /\ UNCHANGED <<cur, descriptores, pcb, archivos, kernel, prog>>
  /\ ProcFrame

(* The parent is released from sema_down(inicializacion): process_execute
   returns the pid field, sys_exec releases archivos and returns it. *)
process_execute_return(p) ==
  /\ kernel = "running"
  /\ pc[p] = "exec"
  /\ LET c == children.starting[p] IN
     /\ children.inicializacion[c] = 1
     /\ children' = [children EXCEPT !.inicializacion[c] = 0,
                                     !.starting[p] = 0]
     /\ last' = [Ev(p, "exec return", SYS_EXEC) EXCEPT
                   !.ret = children.pid[c], !.n = c,
                   !.held = (archivos.holder = p)]
  /\ archivos' = [holder |-> 0]
  /\ pc' = [pc EXCEPT ![p] = "user"]
  /\ cur' = [cur EXCEPT ![p] = NoCall]
  /\ UNCHANGED <<descriptores, pcb, kernel, prog>>
  /\ ProcFrame

(* process_wait up to its sema_down(esperar): -1 when no PCB in the
   caller's list has this pid or the one that has was waited for. *)
process_wait(p, pid, e) ==
  LET list == children.procesos[p]
      found == {i \in 1..Len(list) : children.pid[list[i]] = pid}
  IN IF found = {} \/ (\A i \in found : children.esperando[list[i]])
       THEN /\ ReturnToUser(p, -1, e)
            /\ UNCHANGED <<descriptores, pcb, archivos, kernel, prog>>
       ELSE LET c == list[CHOOSE i \in found : ~children.esperando[list[i]]]
            IN /\ children' = [children EXCEPT !.esperando[c] = TRUE,
                                               !.waiting[p] = c]
               /\ pc' = [pc EXCEPT ![p] = "wait"]
               /\ cur' = [cur EXCEPT ![p] = Call(SYS_WAIT, 0, 0, pid)]
               /\ last' = e
               /\ UNCHANGED <<descriptores, pcb, archivos, kernel, prog>>
               /\ ProcFrame

(* The SYS_WAIT arm, with process_wait behind sys_wait. *)
WaitChild(p) ==
  \E esp \in In(p).esps :
    /\ Dispatch(p, esp)
    /\ LET e == E0(p, esp, SYS_WAIT) IN
       IF ~ArgOk(esp, 1) THEN FaultExit(p, [e EXCEPT !.fault = 1])
       ELSE \E pid \in Procs :
              process_wait(p, pid, [e EXCEPT !.n = pid])

(* The parent is released from sema_down(esperar): process_wait reads the
   exit code, takes the PCB off the list, frees it and returns the code. *)
process_wait_return(p) ==
  /\ kernel = "running"
  /\ pc[p] = "wait"
  /\ LET c == children.waiting[p]
         list == children.procesos[p]
     IN /\ children.esperar[c] = 1
        /\ children' = [children EXCEPT
                          !.esperar[c] = 0,
                          !.waiting[p] = 0,
                          !.joined[p] = @ \cup {c},
                          !.freed[c] = @ + 1,
                          !.procesos[p] = SelectSeq(list,
                                                    LAMBDA x : x # c)]
        /\ pcb' = [pcb EXCEPT ![c] = NoPCB]
        /\ last' = [Ev(p, "wait return", SYS_WAIT) EXCEPT
                      !.ret = pcb[c].exit_code, !.n = c]
  /\ pc' = [pc EXCEPT ![p] = "user"]
  /\ cur' = [cur EXCEPT ![p] = NoCall]
  /\ UNCHANGED <<descriptores, archivos, kernel, prog>>
  /\ ProcFrame

(* process_exit, reached from thread_exit: signal esperar of the own PCB,
   or free the PCB when no parent will wait; tell the children that are
   left that no parent will wait. *)
process_exit(p) ==
  /\ kernel = "running"
  /\ pc[p] = "dead"
  /\ ~children.exited[p]
  /\ LET list == children.procesos[p]
         mine == {list[i] : i \in 1..Len(list)}
     IN children' = [children EXCEPT
                       !.exited[p] = TRUE,
                       !.freed[p] = IF children.deboliberar[p] THEN @ + 1
                                    ELSE @,
                       !.esperar[p] = IF pcb[p].present THEN 1 ELSE @,
                       !.procesos[p] = <<>>,
                       !.deboliberar = [c \in Procs |->
                                          IF c \in mine THEN TRUE ELSE @[c]]]
  /\ pcb' = IF children.deboliberar[p] THEN [pcb EXCEPT ![p] = NoPCB]
            ELSE pcb
  /\ last' = Ev(p, "process_exit", -1)
  /\ UNCHANGED <<pc, cur, descriptores, archivos, kernel, prog>>
  /\ ProcFrame

NextProc ==
  \E p \in Procs :
    \/ CodeFault(p)
    \/ Unimplemented(p)
    \/ Exit(p)
    \/ Exec(p)
    \/ LockAcquire(p)
    \/ process_execute(p)
    \/ start_process(p)
    \/ process_execute_return(p)
    \/ WaitChild(p)
    \/ process_wait_return(p)
    \/ process_exit(p)

SpecProc == InitProc /\ [][NextProc]_vars

(* ------------------------------------------------------------------ *)
(* Properties.  `last` is the record of the step that led to the state, *)
(* so a predicate over `last` and the state speaks about every step.   *)
(* ------------------------------------------------------------------ *)

(* C1: once a system call has completed, the thread being back in user
   mode or dead, the thread does not hold the lock archivos; for every
   handler, every exit path and every argument, descriptors that are not
   in the table included.  Does not hold: SeekBody with such a descriptor. *)
C1_LockNotHeldAfterSyscall ==
  \A p \in Procs : pc[p] \in {"user", "dead"} => archivos.holder # p

(* C2: in every interleaving of the processes at most one thread is between
   lock_acquire(&archivos) and its lock_release, and every call into the
   file system is made by the thread that holds archivos. *)
C2_FileSystemSerialized ==
  /\ Cardinality({p \in Procs : pc[p] = "cs"}) <= 1
  /\ \A p \in Procs : pc[p] = "cs" => archivos.holder = p
  /\ \A i \in 1..Len(last.fs) :
       /\ last.fs[i].by = last.proc
       /\ last.fs[i].held

(* C2 happens: a file-system call was made while another thread was blocked
   in lock_acquire. *)
C2_Witness ==
  /\ last.op = "body"
  /\ last.fs # <<>>
  /\ \E q \in Procs : q # last.proc /\ pc[q] = "acq"

(* C3: when the call number at esp, or an argument at esp + 4k that the
   selected call needs, cannot be read, the process terminates with exit
   code -1 and the handler body is not run: no file-system call, no output
   but the exit line, no change of the descriptor table. *)
C3_StackFaultTerminates ==
  LET p == last.proc
      needs == [c \in Supported |->
                  IF c = SYS_HALT THEN 0
                  ELSE IF c \in {SYS_READ, SYS_WRITE} THEN 3
                  ELSE IF c \in {SYS_CREATE, SYS_SEEK} THEN 2
                  ELSE 1]
      numberBad == get_user_bytes(last.esp, 4) = -1
      argBad == /\ last.code \in Supported
                /\ \E k \in 1..needs[last.code] :
                     get_user_bytes(Wrap(last.esp + 4 * k), 4) = -1
  IN (last.op = "entry" /\ (numberBad \/ argBad)) =>
       /\ pc[p] = "dead"
       /\ cur[p] = NoCall
       /\ pcb[p].terminado
       /\ pcb[p].exit_code = -1
       /\ last.out = <<<<"exit", p, -1>>>>
       /\ last.fs = <<>>
       /\ last.getc = 0
       /\ last.writes = <<>>
       /\ descriptores[p] = last.pre

(* C3 happens: the third argument of READ was unreadable, for a process
   that has open descriptors. *)
C3_Witness ==
  /\ last.op = "entry"
  /\ last.code = SYS_READ
  /\ get_user_bytes(Wrap(last.esp + 8), 4) # -1
  /\ get_user_bytes(Wrap(last.esp + 12), 4) = -1
  /\ last.pre # <<>>
  /\ pc[last.proc] = "dead"

(* C4: FILESIZE, READ, WRITE and TELL with a descriptor that is below 3 or
   not in the table (the console descriptors of READ and WRITE apart, and
   with valid buffers) return -1 and do not terminate the process; FILESIZE
   with a descriptor of the table returns its file_length; whatever is
   mapped at the address equal to fd.  Does not hold: Filesize. *)
C4_InvalidDescriptorReturnsMinusOne ==
  LET p == last.proc
      c == last.code
      tabla == last.pre
      known == {i \in 1..Len(tabla) : tabla[i].id = last.fd}
      console == (c = SYS_READ /\ last.fd \in {0, 1}) \/
                 (c = SYS_WRITE /\ last.fd \in {0, 1})
      argsRead == \A k \in 1..(IF c \in {SYS_READ, SYS_WRITE} THEN 3 ELSE 1) :
                    get_user_bytes(Wrap(last.esp + 4 * k), 4) # -1
      bufferOk == c \in {SYS_READ, SYS_WRITE} =>
                    /\ get_user(last.ptr) # -1
                    /\ get_user(Wrap(last.ptr + last.n - 1)) # -1
  IN c \in {SYS_FILESIZE, SYS_READ, SYS_WRITE, SYS_TELL} =>
       /\ (last.op = "entry" /\ argsRead /\ bufferOk) => pc[p] # "dead"
       /\ (last.op = "body" /\ ~console /\ (last.fd < 3 \/ known = {})) =>
            last.ret = -1
       /\ (last.op = "body" /\ c = SYS_FILESIZE /\ last.fd >= 3 /\ known # {}) =>
            \E i \in known : last.ret = file_length(tabla[i].file)

(* C5: WRITE or READ whose buffer's first byte or last byte (buffer + size
   - 1) is not readable terminates the process with exit code -1 after its
   exit line, before archivos is acquired and before any putbuf, input_getc,
   file_read or file_write; afterwards the thread does not hold archivos. *)
C5_BadBufferTerminates ==
  LET p == last.proc
      argsRead == \A k \in 1..3 :
                    get_user_bytes(Wrap(last.esp + 4 * k), 4) # -1
      bad == \/ get_user(last.ptr) = -1
             \/ get_user(Wrap(last.ptr + last.n - 1)) = -1
  IN (last.op = "entry" /\ last.code \in {SYS_READ, SYS_WRITE} /\ argsRead
        /\ bad) =>
       /\ pc[p] = "dead"
       /\ pcb[p].terminado
       /\ pcb[p].exit_code = -1
       /\ last.out = <<<<"exit", p, -1>>>>
       /\ last.fs = <<>>
       /\ last.getc = 0
       /\ last.writes = <<>>
       /\ archivos.holder # p
       /\ kernel = "running"

(* C5 happens: write(1, PHYS_BASE, size) by a thread that still held archivos
   from an earlier call; the lock is free afterwards. *)
C5_Witness ==
  /\ last.op = "entry"
  /\ last.code = SYS_WRITE
  /\ last.fd = 1
  /\ last.ptr = PHYS_BASE
  /\ last.n = MaxSize
  /\ last.held
  /\ pc[last.proc] = "dead"
  /\ archivos.holder = 0

(* C6: a call number that is none of the thirteen supported ones prints the
   "unimplemented" line exactly once, then the process terminates with exit
   code -1, without acquiring archivos and without touching the descriptor
   table. *)
C6_UnknownCallTerminates ==
  LET p == last.proc IN
  (last.op = "entry" /\ get_user_bytes(last.esp, 4) # -1
     /\ last.code \notin Supported) =>
    /\ last.out = <<<<"unimplemented", last.code>>, <<"exit", p, -1>>>>
    /\ pc[p] = "dead"
    /\ pcb[p].terminado
    /\ pcb[p].exit_code = -1
    /\ (archivos.holder = p) = last.held
    /\ last.fs = <<>>
    /\ descriptores[p] = last.pre
    /\ kernel = "running"

(* C6 happens: call number 14 by a process that has open descriptors. *)
C6_Witness ==
  /\ last.op = "entry"
  /\ last.code = 14
  /\ last.pre # <<>>
  /\ pc[last.proc] = "dead"

(* C7: sys_read with fd = 1 and a valid buffer returns -1 for every size,
   reads nothing from the keyboard or a file and leaves the buffer
   unchanged.  Does not hold: ReadBody returns 0. *)
C7_ReadFromStdoutReturnsMinusOne ==
  (last.op = "body" /\ last.code = SYS_READ /\ last.fd = 1) =>
    /\ last.ret = -1
    /\ last.getc = 0
    /\ last.fs = <<>>
    /\ last.writes = <<>>

(* C8: sys_read with fd = 0 takes characters from input_getc until size
   characters have been read or a null byte is read, returns the number of
   characters read, stores the k-th character at buffer[k] and never writes
   outside buffer[0 .. size-1].  Does not hold: ReadBody. *)
C8_KeyboardReadFillsBuffer ==
  (last.op = "body" /\ last.code = SYS_READ /\ last.fd = 0) =>
    LET size == last.n
        nulls == {k \in 1..size : last.keys[k] = 0}
        calls == IF nulls = {} THEN size
                 ELSE CHOOSE k \in nulls : \A j \in nulls : k <= j
        chars == IF nulls = {} THEN size ELSE calls - 1
    IN /\ last.getc = calls
       /\ last.ret \in {chars, calls}
       /\ last.ret \in 0..size
       /\ \A k \in 1..chars :
            \E i \in 1..Len(last.writes) :
              /\ last.writes[i] = <<k - 1, last.keys[k]>>
              /\ \A j \in (i + 1)..Len(last.writes) :
                   last.writes[j][1] # k - 1
       /\ \A i \in 1..Len(last.writes) : last.writes[i][1] \in 0..(size - 1)

(* C9: for every size >= 0 and every buffer whose bytes buffer[0 .. size-1]
   are readable, sys_write with fd = 1 passes (buffer, size) to putbuf once,
   returns size and does not terminate the process, whatever is at buffer -
   1; with fd = 0 it returns -1 and writes nothing.  Does not hold: Write
   with size = 0. *)
C9_ConsoleWrite ==
  LET p == last.proc
      argsRead == \A k \in 1..3 :
                    get_user_bytes(Wrap(last.esp + 4 * k), 4) # -1
      readable == \A i \in 0..(last.n - 1) :
                    get_user(Wrap(last.ptr + i)) # -1
  IN last.code = SYS_WRITE =>
       /\ (last.op = "entry" /\ argsRead /\ last.fd = 1 /\ readable) =>
            pc[p] # "dead"
       /\ (last.op = "body" /\ last.fd = 1) =>
            /\ last.out = <<<<"putbuf", last.ptr, last.n>>>>
            /\ last.ret = last.n
       /\ (last.op = "body" /\ last.fd = 0) =>
            /\ last.ret = -1
            /\ last.out = <<>>
            /\ last.fs = <<>>

(* C10, as stated: a successful sys_open appends one descriptor and returns
   its id, which is (the largest id in the table before the call, or 3 if
   the table is empty) + 1; a failed open returns -1 and leaves the table
   unchanged.  Does not hold: the first open returns 3. *)
C10_OpenIdAsStated ==
  LET p == last.proc
      tabla == last.pre
      ids == {tabla[i].id : i \in 1..Len(tabla)}
      top == IF ids = {} THEN 3 ELSE CHOOSE m \in ids : \A j \in ids : j <= m
  IN (last.op = "body" /\ last.code = SYS_OPEN) =>
       IF last.fs[1].file = 0
         THEN last.ret = -1 /\ descriptores[p] = tabla
         ELSE /\ last.ret = top + 1
              /\ descriptores[p] =
                   Append(tabla, [id |-> last.ret, file |-> last.fs[1].file])

(* C10, amended: a successful sys_open appends one descriptor and returns
   its id, which is 3 if the table is empty and otherwise the largest id in
   the table before the call + 1; a failed open (no page, or filesys_open
   failed) returns -1 and leaves the table unchanged. *)
C10_OpenId ==
  LET p == last.proc
      tabla == last.pre
      ids == {tabla[i].id : i \in 1..Len(tabla)}
      fresh == IF ids = {} THEN 3
               ELSE (CHOOSE m \in ids : \A j \in ids : j <= m) + 1
  IN /\ (last.op = "body" /\ last.code = SYS_OPEN) =>
          IF last.fs[1].file = 0
            THEN last.ret = -1 /\ descriptores[p] = tabla
            ELSE /\ last.ret = fresh
                 /\ descriptores[p] =
                      Append(tabla, [id |-> fresh, file |-> last.fs[1].file])
     /\ (last.op = "entry" /\ last.code = SYS_OPEN /\ pc[p] = "user"
           /\ kernel = "running") =>
          last.ret = -1 /\ descriptores[p] = tabla /\ last.fs = <<>>

(* C10 happens: an open after a close, the table holding only id 4, returns
   5. *)
C10_Witness ==
  /\ last.op = "body"
  /\ last.code = SYS_OPEN
  /\ Len(last.pre) = 1
  /\ last.pre[1].id = 4
  /\ last.ret = 5
  /\ Len(descriptores[last.proc]) = 2

(* C11: sys_close(fd) never terminates the process; when no entry of the
   table has id fd the table is unchanged and no file is closed, otherwise
   exactly that entry is removed and its file closed once, the other entries
   keeping id, file and order; READ, WRITE, FILESIZE and TELL on an id that
   was closed (ids are handed out consecutively, so an id below the table's
   last id that is not in the table) return -1 without terminating the
   process.  Does not hold: Filesize on a closed id. *)
C11_CloseRemovesOnlyItsEntry ==
  LET p == last.proc
      c == last.code
      tabla == last.pre
      ids == {tabla[i].id : i \in 1..Len(tabla)}
      hits == {i \in 1..Len(tabla) : tabla[i].id = last.fd}
      closedId == /\ last.fd >= 3
                  /\ last.fd \notin ids
                  /\ \E j \in ids : last.fd < j
      argsRead == \A k \in 1..(IF c \in {SYS_READ, SYS_WRITE} THEN 3 ELSE 1) :
                    get_user_bytes(Wrap(last.esp + 4 * k), 4) # -1
      bufferOk == c \in {SYS_READ, SYS_WRITE} =>
                    /\ get_user(last.ptr) # -1
                    /\ get_user(Wrap(last.ptr + last.n - 1)) # -1
  IN /\ (c = SYS_CLOSE /\ last.op = "entry" /\ argsRead) => pc[p] # "dead"
     /\ (c = SYS_CLOSE /\ last.op = "body") =>
          /\ pc[p] = "user"
          /\ descriptores[p] = SelectSeq(tabla, LAMBDA d : d.id # last.fd)
          /\ IF hits = {}
               THEN last.fs = <<>>
               ELSE /\ Len(last.fs) = 1
                    /\ last.fs[1].op = "file_close"
                    /\ \E i \in hits : last.fs[1].file = tabla[i].file
     /\ (c \in {SYS_READ, SYS_WRITE, SYS_FILESIZE, SYS_TELL} /\ closedId) =>
          /\ (last.op = "entry" /\ argsRead /\ bufferOk) => pc[p] # "dead"
          /\ last.op = "body" => last.ret = -1

(* C12: every termination through the dispatcher, EXIT with status s, a
   user-memory fault or an unknown call number, prints the exit line exactly
   once, as the last output of the call, with s for EXIT and -1 otherwise;
   a call that does not terminate the process prints no exit line. *)
C12_ExitLineOnce ==
  LET p == last.proc
      exits == {i \in 1..Len(last.out) : last.out[i][1] = "exit"}
      code == IF /\ last.code = SYS_EXIT
                 /\ get_user_bytes(Wrap(last.esp + 4), 4) # -1
                THEN last.n ELSE -1
  IN last.op \in {"entry", "body"} =>
       IF pc[p] = "dead"
         THEN /\ exits = {Len(last.out)}
              /\ last.out[Len(last.out)] = <<"exit", p, code>>
              /\ pcb[p].exit_code = code
         ELSE exits = {}

(* C12 happens: exit(1). *)
C12_Witness ==
  /\ last.op = "entry"
  /\ last.code = SYS_EXIT
  /\ last.n = 1
  /\ pc[last.proc] = "dead"
  /\ last.out = <<<<"exit", last.proc, 1>>>>

(* C18: in every state every id of a descriptor table is at least 3, no two
   entries of a table share an id, and the entries are in strictly ascending
   order of id, so that the last entry holds the largest. *)
C18_TableIdsAscending ==
  \A p \in Procs :
    /\ \A i \in 1..Len(descriptores[p]) : descriptores[p][i].id >= 3
    /\ \A i, j \in 1..Len(descriptores[p]) :
         i < j => descriptores[p][i].id < descriptores[p][j].id

(* C18 happens: after open, open, close(3), open the table holds 4 and 5. *)
C18_Witness ==
  \E p \in Procs :
    /\ Len(descriptores[p]) = 2
    /\ descriptores[p][1].id = 4
    /\ descriptores[p][2].id = 5
    /\ last.code = SYS_OPEN
    /\ last.op = "body"

(* C20: ROUND_X(x) is the integer nearest to x / f, halves rounded away from
   zero, for positive and negative x; and ROUND_X(CONV_N(n)) = n for every
   integer n, negative ones included.  Does not hold: Round of a negative
   value. *)
C20_RoundToNearest ==
  LET f == 2^CORRIMIENTO
      abs(v) == IF v < 0 THEN - v ELSE v
      nearest(x, r) == \/ 2 * abs(x - r * f) < f
                       \/ 2 * abs(x - r * f) = f /\ abs(r * f) > abs(x)
  IN /\ fp.op = "round" => nearest(fp.x, fp.r)
     /\ fp.op = "convert and round" => fp.r = fp.x

(* C17: a thread that calls timer_sleep(n), n > 0, at tick t stays blocked
   through every tick before t + n and is unblocked in tick t + n; threads
   with different wakeup ticks are unblocked in ascending order of wakeup
   tick whatever the order in which they went to sleep; no thread whose
   wakeup tick has come is left blocked. *)
C17_WakeAtItsTick ==
  /\ \A t \in Sleepers :
       /\ timer.status[t] = "blocked" => timer.ticks < timer.wake_at[t]
       /\ timer.woke_at[t] # 0 => timer.woke_at[t] = timer.wake_at[t]
       /\ timer.status[t] = "blocked" <=>
            \E i \in 1..Len(timer.lista_espera) : timer.lista_espera[i] = t
  /\ \A a, b \in Sleepers :
       (timer.woke_at[a] # 0 /\ timer.woke_at[b] # 0
          /\ timer.wake_at[a] < timer.wake_at[b]) =>
         timer.woke_at[a] < timer.woke_at[b]

(* C17 happens: three threads went to sleep in tick 0 for 3, 1 and 2 ticks
   and woke in ticks 1, 2, 3, the shortest sleep first. *)
C17_Witness ==
  /\ timer.ticks = 3
  /\ timer.wake_at = (1 :> 3 @@ 2 :> 1 @@ 3 :> 2)
  /\ timer.woke_at = (1 :> 3 @@ 2 :> 1 @@ 3 :> 2)
  /\ timer.lista_espera = <<>>

(* C19, as stated: the sleep list is strictly sorted ascending by wakeup
   tick in every state, threads with the same wakeup tick included.  Does
   not hold: two threads with the same wakeup tick. *)
C19_SleepListStrictlySorted ==
  \A i, j \in 1..Len(timer.lista_espera) :
    i < j => timer.TIEMPO_DORMIDO[timer.lista_espera[i]] <
             timer.TIEMPO_DORMIDO[timer.lista_espera[j]]

(* C19, amended: the sleep list is sorted ascending by wakeup tick in every
   state; threads with the same wakeup tick lie next to each other. *)
C19_SleepListSorted ==
  /\ \A i, j \in 1..Len(timer.lista_espera) :
       i < j => timer.TIEMPO_DORMIDO[timer.lista_espera[i]] <=
                timer.TIEMPO_DORMIDO[timer.lista_espera[j]]
  /\ \A i, j \in 1..Len(timer.lista_espera) :
       i # j => timer.lista_espera[i] # timer.lista_espera[j]
  /\ \A i \in 1..Len(timer.lista_espera) :
       timer.TIEMPO_DORMIDO[timer.lista_espera[i]] > timer.ticks

(* C19 happens: a thread was inserted between two others, one of which has
   its wakeup tick. *)
C19_Witness ==
  /\ Len(timer.lista_espera) = 3
  /\ timer.lista_espera[1] = 3
  /\ timer.TIEMPO_DORMIDO[timer.lista_espera[1]] =
       timer.TIEMPO_DORMIDO[timer.lista_espera[2]]
  /\ timer.TIEMPO_DORMIDO[timer.lista_espera[2]] <
       timer.TIEMPO_DORMIDO[timer.lista_espera[3]]

(* C16: a sema_up on a semaphore with waiters unblocks the waiter whose
   effective priority is highest at that moment and, among waiters of that
   priority, the one that arrived first; five waiters with priorities 10,
   20, 30, 40, 50 are therefore unblocked in the order 50, 40, 30, 20, 10. *)
C16_WakeHighestFirst ==
  LET q == sema.up.queue
      pr == sema.up.priority
      w == sema.up.woke
  IN /\ w # 0 =>
          /\ sema.woken[Len(sema.woken)] = w
          /\ \E i \in 1..Len(q) :
               /\ q[i] = w
               /\ \A j \in 1..Len(q) :
                    /\ pr[q[j]] <= pr[w]
                    /\ pr[q[j]] = pr[w] => i <= j
     /\ (sema.all /\ sema.priority = BasePriority /\ Len(sema.woken) >= 5) =>
          SubSeq(sema.woken, 1, 5) = <<5, 4, 3, 2, 1>>

(* C16 happens: the five threads waited together and five sema_up calls
   unblocked them, the highest priority first. *)
C16_Witness ==
  /\ sema.all
  /\ sema.priority = BasePriority
  /\ sema.woken = <<5, 4, 3, 2, 1>>
  /\ \A t \in Waiters : sema.status[t] = "done"

(* C15: under priority donation, in every state, a thread t that is blocked
   on a lock whose holder is H has effective_priority(H) >=
   effective_priority(t); across chains of locks, after lock_release
   recomputed the releaser's priority, and after a new holder took a lock
   that still has waiters.  Does not hold: DonationTake by the new holder
   after a donation reached a waiter of the lock while it had no holder. *)
C15_HolderOutranksWaiters ==
  \A t \in Donors :
    LET l == donation.waiting_for_lock[t] IN
    (donation.status[t] = "blocked" /\ donation.holder[l] # 0) =>
      donation.priority[donation.holder[l]] >= donation.priority[t]

(* The status process p passes to EXIT in the step that makes `last'`: the
   argument of SYS_EXIT, -1 when the dispatcher terminates it. *)
StatusPassed ==
  IF last'.code = SYS_EXIT /\ last'.fault = -1 THEN last'.n ELSE -1

(* The children p started whose load succeeded and that no WAIT of p has
   returned for. *)
Unwaited(p) ==
  {c \in children.made[p] \ children.joined[p] : children.loaded[c] = "ok"}

(* C13: WAIT(pid) on a child the caller created and has not waited for
   blocks until the child has exited, then returns the status the child
   passed to EXIT (-1 after a fault); the child writes exit_code and
   terminado into its PCB before the parent is released from esperar.  WAIT
   on a pid that is no child of the caller, or a second WAIT on a pid,
   returns -1 without blocking.  Step by step: a process that terminates
   leaves its status and terminado in its PCB; the PCB of a dead child
   stays as it is until the parent's WAIT returns; WAIT blocks on an
   unwaited child and returns -1 at once otherwise; the return from WAIT
   happens after the child died and carries the PCB's exit code. *)
C13_WaitReturnsExitStatus ==
  [][ /\ \A c \in Procs :
           (pc[c] \in {"user", "cs", "acq"} /\ pc'[c] = "dead"
              /\ pcb[c].present) =>
             /\ pcb'[c].terminado
             /\ pcb'[c].exit_code = StatusPassed
             /\ children'.esperar[c] = 0
      /\ \A c \in Procs :
           (pc[c] = "dead" /\ pcb[c].present /\ pcb'[c].present) =>
             pcb'[c] = pcb[c]
      /\ \A p \in Procs :
           (pc[p] = "user" /\ last' # last /\ last'.proc = p
              /\ last'.op = "entry" /\ last'.code = SYS_WAIT
              /\ last'.fault = -1) =>
             IF last'.n \in Unwaited(p)
               THEN pc'[p] = "wait" /\ last'.ret = NoRet
               ELSE pc'[p] = "user" /\ last'.ret = -1
      /\ \A p \in Procs :
           (pc[p] = "wait" /\ pc'[p] = "user") =>
             LET c == children.waiting[p] IN
             /\ c \in Unwaited(p)
             /\ pc[c] = "dead"
             /\ pcb[c].terminado
             /\ children.esperar[c] = 1
             /\ last'.ret = pcb[c].exit_code
    ]_vars

(* A WAIT blocked on its child, the child was terminated for a fault, and
   the WAIT returned -1. *)
C13_Witness ==
  /\ last.op = "wait return"
  /\ last.ret = -1
  /\ pc[last.n] = "dead"
  /\ last.n \in children.joined[last.proc]

(* C14: EXEC with a readable cmd_line does not return before the child has
   ended its load attempt and signalled inicializacion; it returns the
   child's pid after a successful load and -1 after a failed one.  EXEC with
   an unreadable cmd_line terminates the caller with exit code -1 and
   creates no child. *)
C14_ExecWaitsForLoad ==
  [][ /\ \A p \in Procs :
           (pc[p] = "exec" /\ pc'[p] = "user") =>
             LET c == children.starting[p] IN
             /\ get_user(cur[p].ptr) # -1
             /\ children.loaded[c] # "no"
             /\ children.inicializacion[c] = 1
             /\ last'.ret = IF children.loaded[c] = "ok" THEN c ELSE -1
      /\ \A p \in Procs :
           (pc[p] = "user" /\ last' # last /\ last'.proc = p
              /\ last'.op = "entry" /\ last'.code = SYS_EXEC
              /\ last'.fault = -1 /\ get_user(last'.ptr) = -1) =>
             /\ pc'[p] = "dead"
             /\ pcb'[p].terminado /\ pcb'[p].exit_code = -1
             /\ children' = children
             /\ \A c \in Procs \ {p} : pc'[c] = pc[c] /\ pcb'[c] = pcb[c]
      /\ \A c \in Procs :
           (pc[c] = "none" /\ pc'[c] # "none") =>
             \E p \in Procs : pc'[p] = "exec" /\ get_user(cur[p].ptr) # -1
    ]_vars

(* An EXEC whose child failed to load returned -1 after the child's
   signal. *)
C14_Witness ==
  /\ last.op = "exec return"
  /\ last.ret = -1
  /\ children.loaded[last.n] = "failed"

(* C21: the fixed-point macros use the scale f = 2^14: CONV_N(n) = n * 2^14,
   ADD_X_N(x, n) = x + n * 2^14, MUL_X_Y(x, y) = (x * y) / 2^14 and
   DIV_X_Y(x, y) = (x * 2^14) / y.  Does not hold: the macros shift by
   CORRIMIENTO = 12. *)
C21_ScaleIsTwoToThe14 ==
  /\ fp.op = "CONV_N" => fp.r = fp.n * 2^14
  /\ fp.op = "ADD_X_N" => fp.r = fp.x + fp.n * 2^14
  /\ fp.op = "MUL_X_Y" => fp.r = Quotient(fp.x * fp.y, 2^14)
  /\ fp.op = "DIV_X_Y" => fp.r = Quotient(fp.x * 2^14, fp.y)

(* C22: get_user_bytes(uaddr, dst, n) returns n with dst[i] the byte at
   uaddr + i for every i < n when all n addresses are below PHYS_BASE and
   readable, and -1 when one of them is at or above PHYS_BASE or faults; a
   byte of value 0xFF is data, not a failure; and a caller in
   syscall_handler that gets -1 terminates the process with no argument
   taken from dst. *)
C22_GetUserBytes ==
  LET readable(a) == a < PHYS_BASE /\ a \in Mapped
      all == \A i \in 0..(last.n - 1) : readable(Wrap(last.ptr + i))
      p == last.proc
  IN /\ last.op = "get_user_bytes" =>
          IF all
            THEN /\ last.ret = last.n
                 /\ Len(last.writes) = last.n
                 /\ \A i \in 0..(last.n - 1) :
                      last.writes[i + 1] = <<i, UserByte(Wrap(last.ptr + i))>>
            ELSE last.ret = -1
     /\ (last.op = "entry" /\ last.fault >= 0) =>
          /\ get_user_bytes(Wrap(last.esp + 4 * last.fault), WordSize) = -1
          /\ pc[p] = "dead"
          /\ pcb[p].terminado /\ pcb[p].exit_code = -1
          /\ last.fd = 0 /\ last.ptr = 0 /\ last.n = 0
          /\ last.ret = NoRet
     /\ (last.op = "entry" /\ last.fault = -1) =>
          get_user_bytes(last.esp, WordSize) = WordSize

(* Four readable bytes were read, the second of them 0xFF. *)
C22_Witness ==
  /\ last.op = "get_user_bytes"
  /\ last.n = WordSize
  /\ last.ret = WordSize
  /\ last.writes[2] = <<1, 255>>

(* C23: no sequence of system calls makes a thread call
   lock_acquire(&archivos) while it holds archivos, which would fail the
   assertion of lock_acquire and panic the kernel.  Does not hold: a handler
   reaches ToAcquire after SeekBody left the lock with the thread. *)
C23_NoAcquireWhileHolding ==
  ~ (/\ kernel = "panic"
     /\ last.op = "entry"
     /\ last.held
     /\ archivos.holder = last.proc)

(* C24: under fair scheduling, with every file-system call returning, a
   thread that calls lock_acquire(&archivos) in a file system call gets the
   lock in the end and its call completes, whatever the other processes
   did before and even when they have exited; unless the machine is
   powered off by SYS_HALT meanwhile.  Does not hold: the other process
   left SeekBody holding the lock. *)
C24_AcquireCompletes ==
  \A p \in Procs :
    (pc[p] \in {"acq", "cs"}) ~> (pc[p] \in {"user", "dead"} \/ kernel = "off")

(* C25: every PCB is freed exactly once, and only after its child has
   exited and its parent has completed WAIT on it or has exited; whatever
   the order of child exit, parent WAIT and parent exit, no PCB is freed
   twice and none is left once both processes are gone; said of the
   children whose load succeeded.  Does not hold: the child ran process_exit
   before the parent, which never waited, ran its own. *)
C25_FreedExactlyOnce ==
  \A p \in Procs : \A c \in children.made[p] :
    children.loaded[c] = "ok" =>
    /\ children.freed[c] <= 1
    /\ children.freed[c] = 1 =>
         /\ pc[c] = "dead"
         /\ c \in children.joined[p] \/ pc[p] = "dead"
         /\ ~pcb[c].present
    /\ (children.exited[c] /\ children.exited[p]) => children.freed[c] = 1

====
